---- MODULE Spec2Model ----
(***************************************************************************)
(* A state-machine model of Assemble() of mdadm (src/Assemble.c): the      *)
(* probe of the candidate devices, the identity filter, the slot chooser,  *)
(* the quorum count and the force loop, the reconciler and the driver      *)
(* plan.  One action models one step of the function; the kernel md        *)
(* driver and the devices' on-disk superblocks are the environment.        *)
(***************************************************************************)
EXTENDS Integers, Sequences, FiniteSets, TLC

(***************************************************************************)
(* Bounds of the model.                                                    *)
(***************************************************************************)
\* Length of the candidate device list (devlist).
MaxDevs == 3
\* Largest event counter found on a superblock.
MaxEvent == 3
\* Number of environment calls (device I/O, ioctl) that may fail in a run.
MaxFaults == 2

(***************************************************************************)
(* Program constants.                                                      *)
(***************************************************************************)
\* "not given" value of an identity field (mdadm.h).
UnSet == -1
\* Size of the per-slot table of a superblock (md_p.h).
MD_SB_DISKS == 28
\* Minor number of the array device behind mdfd.
MdMinor == 1
\* The array device as the name of a file descriptor open on it; the
\* devices of the list are named 1, 2, ...
Mdfd == 0
\* Lowest md driver version Assemble accepts.
MinVersion == 9000
\* A raid_disk at or above this value claims no slot.
SlotLimit == 10000
\* best[] is grown to the claimed slot plus this many entries.
BestGrow == 10
\* Largest value of a 32-bit int: okcnt, sparecnt and req_cnt are 32-bit
\* unsigned, held here as the int with the same bits (0xffffffff is -1).
IntMax == 2147483647

\* Device names of the candidate list; device d has device number d.
Devs == 1 .. MaxDevs
Max(a, b) == IF a >= b THEN a ELSE b

\* (level, raid_disks) of the arrays tried: raid5 on 3, raid0 on 2,
\* multipath on 2.
Geoms == { <<5, 3>>, <<0, 2>>, <<-4, 2>> }

\* Slot indexes the per-slot table of a modelled superblock spells out (a
\* slot beyond every array's raid_disks, an arrival index on multipath);
\* the entries beyond them are all zero.
Slots == 0 .. Max(MaxDevs, CHOOSE n \in {g[2] : g \in Geoms} :
                              \A g \in Geoms : g[2] <= n)

\* unsigned int arithmetic on the int with the same bits
UDec(x) == IF x = -IntMax - 1 THEN IntMax ELSE x - 1
UInc(x) == IF x = IntMax THEN -IntMax - 1 ELSE x + 1
\* a >= b as unsigned ints
UGe(a, b) == IF (a < 0) = (b < 0) THEN a >= b ELSE a < 0
\* an unsigned int passed as an int argument keeps its bits
AsInt(x) == x

(***************************************************************************)
(* Superblocks.  A per-device or per-slot state is the set of its flag     *)
(* bits; (major, minor) is one device number.                              *)
(***************************************************************************)
ActiveSync == {"ACTIVE", "SYNC"}

\* disks[] of an array whose slots 0..rd-1 are recorded in sync, slot i on
\* device number i+1.
CleanTable(rd) ==
    [i \in Slots |-> [number |-> i + 1, desc |-> i,
                      state |-> IF i < rd THEN ActiveSync ELSE {}]]

\* disks[] of the same array after its last data slot was marked faulty and
\* its first slot moved to another device number.
DegradedTable(rd) ==
    [i \in Slots |-> [number |-> IF i = 0 THEN MaxDevs + 1 ELSE i + 1,
                      desc |-> i,
                      state |-> IF i < rd - 1 THEN ActiveSync
                                ELSE IF i = rd - 1 THEN {"FAULTY"} ELSE {}]]

\* disks[] of the same array after the device of its last data slot failed
\* and was removed; the unused descriptors beyond raid_disks are zero but
\* for a stray FAULTY flag.
RemovedTable(rd) ==
    [i \in Slots |-> IF i < rd - 1
                     THEN [number |-> i + 1, desc |-> i, state |-> ActiveSync]
                     ELSE IF i = rd - 1
                     THEN [number |-> i + 1, desc |-> i,
                           state |-> {"FAULTY", "REMOVED"}]
                     ELSE [number |-> 0, desc |-> 0, state |-> {"FAULTY"}]]

\* disks[] with every descriptor zero
ZeroTable == [i \in Slots |-> [number |-> 0, desc |-> 0, state |-> {}]]

\* The part of a superblock from the event counter on (events, disks[],
\* this_disk) as it reads one 32-bit word further down; on a superblock
\* laid out properly that is no valid content.
JunkTail ==
    [events |-> 0,
     this_disk |-> [number |-> 0, raid_disk |-> 0, state |-> {}],
     disks |-> ZeroTable]

MkSuper(uuid, level, rd, events, slot, dstate, table) ==
    [md_magic |-> 1, uuid |-> uuid, md_minor |-> uuid - 1,
     level |-> level, raid_disks |-> rd,
     events |-> events, state |-> {}, recovery_cp |-> 1,
     nr_disks |-> 0, active_disks |-> 0, working_disks |-> 0,
     failed_disks |-> 0, spare_disks |-> 0,
     this_disk |-> [number |-> slot + 1, raid_disk |-> slot, state |-> dstate],
     disks |-> table,
     sparc_tail |-> JunkTail]

\* A superblock written by a 2.2 sparc kernel: its tail lies one word
\* further down than where it is read.
Sparc22(sb) ==
    [sb EXCEPT !.events = JunkTail.events,
               !.this_disk = JunkTail.this_disk,
               !.disks = JunkTail.disks,
               !.sparc_tail = [events |-> sb.events,
                               this_disk |-> sb.this_disk,
                               disks |-> sb.disks]]

\* What a device without a loadable superblock holds; also the value of
\* first_super before the first device is committed (md_magic = 0).
NoSuper == [MkSuper(1, 0, 0, 0, 0, {}, CleanTable(0)) EXCEPT !.md_magic = 0]


(***************************************************************************)
(* Inputs: the array the devices belong to and what each device holds.     *)
(***************************************************************************)
Member(g, e, slot, st, table) == MkSuper(1, g[1], g[2], e, slot, st, table)
\* A device of another array: other uuid and super-minor.
Foreign(g) == MkSuper(2, g[1], g[2], MaxEvent, 0, ActiveSync, CleanTable(g[2]))
\* A device with the array's uuid whose superblock records one more raid disk.
Odd(g) == MkSuper(1, g[1], g[2] + 1, MaxEvent, 0, ActiveSync, CleanTable(g[2] + 1))

\* The identities tried (mddev_ident_t): nothing given, uuid, super-minor,
\* level, raid_disks, a device whitelist.
NoIdent == [uuid_set |-> FALSE, uuid |-> 0, super_minor |-> UnSet,
            level |-> UnSet, raid_disks |-> UnSet, devices |-> {}]
Idents(g) ==
    { NoIdent,
      [NoIdent EXCEPT !.uuid_set = TRUE, !.uuid = 1],
      [NoIdent EXCEPT !.super_minor = 0],
      [NoIdent EXCEPT !.level = g[1]],
      [NoIdent EXCEPT !.raid_disks = g[2]],
      [NoIdent EXCEPT !.devices = Devs \ {MaxDevs}] }

(***************************************************************************)
(* State.                                                                  *)
(***************************************************************************)
VARIABLES
    \* arguments of Assemble; disk0 is what the devices held at the call
    force, runstop, inargv, ident, num_devs, update, disk0,
    \* environment: the kernel array behind mdfd, the devices' superblocks
    kstate, kdisks, disk,
    \* locals of Assemble
    pc, old_linux, first_super, super, devices, best, bestcnt,
    most_recent, okcnt, sparecnt, req_cnt, avail, chosen_drive, change,
    nextdev, addi, ret,
    \* history: kernel calls issued and those of them that failed, devices
    \* whose superblock was stored, force-loop iterations, number of failed
    \* environment calls, last diagnostic, undefined behaviour executed
    calls, failed, writes, iters, faults, msg, ub,
    \* the open file descriptors, each named by what it is open on: Mdfd
    \* or a device of the list; the devices an open with O_RDWR was tried on
    fds, rdwr

params == <<force, runstop, inargv, ident, num_devs, update, disk0>>
env == <<kstate, kdisks, disk>>
locals == <<old_linux, first_super, super, devices, best, bestcnt,
            most_recent, okcnt, sparecnt, req_cnt, avail, chosen_drive,
            change, nextdev, addi>>
hist == <<calls, failed, writes, iters, faults, ub, fds, rdwr>>
vars == <<params, env, locals, hist, pc, ret, msg>>

devcnt == Len(devices)
\* devices[j], j counted from 0 as in the source
Dev(j) == devices[j + 1]

Call(op, dev) == [op |-> op, dev |-> dev]
CallOps == { calls[k].op : k \in 1 .. Len(calls) }

\* a return statement of Assemble
Return(r, m) == pc' = "done" /\ ret' = r /\ msg' = m

\* whether one more environment call may fail
MayFail == faults < MaxFaults

(***************************************************************************)
(* Helpers outside src/: the superblock comparison and the quorum rule.    *)
(***************************************************************************)
\* compare_super(&first, &sb): 0 when first is still unset (sb then becomes
\* the reference) or when the generic prefixes agree, non-zero otherwise.
compare_super(first, sb) ==
    IF first.md_magic = 0 THEN 0
    ELSE IF first.uuid # sb.uuid THEN 2
    ELSE IF first.level # sb.level \/ first.raid_disks # sb.raid_disks THEN 3
    ELSE 0

\* first_super after compare_super(&first, &sb)
reference_after(first, sb) == IF first.md_magic = 0 THEN sb ELSE first

\* enough(level, raid_disks, layout, avail, avail_disks)
enough(level, raid_disks, layout, av, avail_disks) ==
    CASE level \in {0, -1} -> avail_disks = raid_disks
      [] level \in {1, -4} -> avail_disks >= 1
      [] level \in {4, 5}  -> avail_disks >= raid_disks - 1
      [] level = 6         -> avail_disks >= raid_disks - 2
      [] OTHER             -> FALSE

Enough == enough(first_super.level, first_super.raid_disks, 0, avail, AsInt(okcnt))

(***************************************************************************)
(* Entry: version checks, GET_ARRAY_INFO, the defensive STOP_ARRAY, the    *)
(* identity check, the allocation of best[] and devices[].                 *)
(***************************************************************************)
no_identity ==
    /\ ~inargv
    /\ ~ident.uuid_set
    /\ ident.super_minor < 0
    /\ ident.devices = {}

\* Alternative to array_active: GET_ARRAY_INFO is taken to fail always.
never_active == FALSE

\* ioctl(mdfd, GET_ARRAY_INFO) succeeds: the array is running
array_active == kstate = "active"

\* Alternative to stopped_array: STOP_ARRAY leaves the array as it was.
kept_array == kstate

\* the kernel array after ioctl(mdfd, STOP_ARRAY)
stopped_array == "stopped"

Start ==
    /\ pc = "start"
    /\ \E vers \in {0, MinVersion - 1, MinVersion}, old \in BOOLEAN :
         IF vers <= 0 THEN
            /\ Return(1, "not an md device")
            /\ UNCHANGED <<params, env, locals, hist>>
         ELSE IF vers < MinVersion THEN
            /\ Return(1, "driver too old")
            /\ UNCHANGED <<params, env, locals, hist>>
         ELSE IF array_active THEN
            /\ calls' = Append(calls, Call("GET_ARRAY_INFO", 0))
            /\ old_linux' = old
            /\ Return(1, "already active")
            /\ UNCHANGED <<params, env, first_super, super, devices, best,
                           bestcnt, most_recent, okcnt, sparecnt, req_cnt,
                           avail, chosen_drive, change, nextdev, addi,
                           failed, writes, iters, faults, ub, fds, rdwr>>
         ELSE
            /\ calls' = calls \o << Call("GET_ARRAY_INFO", 0),
                                    Call("STOP_ARRAY", 0) >>
            /\ kstate' = stopped_array
            /\ kdisks' = {}
            /\ failed' = {"GET_ARRAY_INFO"}
            /\ old_linux' = old
            /\ IF no_identity
               THEN Return(1, "no identity")
               ELSE pc' = "probe" /\ UNCHANGED <<ret, msg>>
            /\ UNCHANGED <<params, disk, first_super, super, devices, best,
                           bestcnt, most_recent, okcnt, sparecnt, req_cnt,
                           avail, chosen_drive, change, nextdev, addi,
                           writes, iters, faults, ub, fds,
                           rdwr>>

(***************************************************************************)
(* The probe loop: one candidate device per step.                          *)
(***************************************************************************)
\* the identity filter on a probed device; sb is read only when havesuper
rejected_by_ident(havesuper, sb) ==
    \/ ident.uuid_set /\ (~havesuper \/ sb.uuid # ident.uuid)
    \/ ident.super_minor # UnSet /\ (~havesuper \/ ident.super_minor # sb.md_minor)
    \/ ident.level # UnSet /\ (~havesuper \/ ident.level # sb.level)
    \/ ident.raid_disks # UnSet /\ (~havesuper \/ ident.raid_disks # sb.raid_disks)

\* devices[devcnt] as recorded from superblock sb of device d
candidate(d, sb) ==
    [dev |-> d, number |-> d, oldnumber |-> sb.this_disk.number,
     events |-> sb.events, uptodate |-> FALSE,
     state |-> sb.this_disk.state, raid_disk |-> sb.this_disk.raid_disk]

\* most_recent once devs[n] (the last entry) is recorded
most_recent_after(mr, devs) ==
    LET n == Len(devs) - 1 IN
    IF mr < n /\ devs[n + 1].events > devs[mr + 1].events THEN n ELSE mr

\* the slot a candidate claims: its arrival index on multipath
slot_key(sb, n) == IF sb.level = -4 THEN n ELSE sb.this_disk.raid_disk

\* best[] grown so that it holds slot i
grown(b, cnt, i) ==
    IF i >= cnt
    THEN [c \in 0 .. (i + BestGrow - 1) |-> IF c < cnt THEN b[c] ELSE -1]
    ELSE b

\* Alternative to best_after: a tie on the event counter goes to the
\* later arrival.
best_after_latest(b, cnt, i, devs) ==
    LET n == Len(devs) - 1
        nb == grown(b, cnt, i)
    IN  IF i >= SlotLimit THEN b
        ELSE IF nb[i] = -1 \/ devs[nb[i] + 1].events <= devs[n + 1].events
             THEN [nb EXCEPT ![i] = n]
             ELSE nb

\* best[] once devs[n] (the last entry), which claims slot i, is placed
best_after(b, cnt, i, devs) ==
    LET n == Len(devs) - 1
        nb == grown(b, cnt, i)
    IN  IF i >= SlotLimit THEN b
        ELSE IF nb[i] = -1 \/ devs[nb[i] + 1].events < devs[n + 1].events
             THEN [nb EXCEPT ![i] = n]
             ELSE nb

bestcnt_after(cnt, i) ==
    IF i < SlotLimit /\ i >= cnt THEN i + BestGrow ELSE cnt

\* update "sparc2.2": the tail of the superblock is moved up one word
sparc22_fixed(sb) ==
    [sb EXCEPT !.events = sb.sparc_tail.events,
               !.this_disk = sb.sparc_tail.this_disk,
               !.disks = sb.sparc_tail.disks,
               !.sparc_tail = JunkTail]

\* update "super-minor": md_minor becomes the minor of the array device
minor_set(sb) == [sb EXCEPT !.md_minor = MdMinor]

\* the descriptors update "summaries" counts: a device number, not REMOVED
summed(sb) ==
    { i \in DOMAIN sb.disks :
        sb.disks[i].number # 0 /\ "REMOVED" \notin sb.disks[i].state }

\* update "summaries": the counts are recomputed from disks[], and unused
\* descriptors beyond raid_disks lose their state
summarised(sb) ==
    [sb EXCEPT
       !.nr_disks = Cardinality(summed(sb)),
       !.active_disks =
          Cardinality({ i \in summed(sb) : "ACTIVE" \in sb.disks[i].state }),
       !.failed_disks =
          Cardinality({ i \in summed(sb) : "FAULTY" \in sb.disks[i].state }),
       !.working_disks =
          Cardinality({ i \in summed(sb) : "FAULTY" \notin sb.disks[i].state }),
       !.spare_disks =
          Cardinality({ i \in summed(sb) : sb.disks[i].state = {} }),
       !.disks = [i \in DOMAIN sb.disks |->
                    IF /\ sb.disks[i].number = 0
                       /\ i >= sb.raid_disks
                       /\ sb.disks[i].desc = 0
                    THEN [sb.disks[i] EXCEPT !.state = {}]
                    ELSE sb.disks[i]]]

\* update "resync": the array is no longer clean
resynced(sb) == [sb EXCEPT !.state = sb.state \ {"CLEAN"}, !.recovery_cp = 0]

\* Alternative to updated: the update block leaves super as loaded.
not_updated(sb) == sb

\* super after the update block
updated(sb) ==
    CASE update = "sparc2.2"    -> sparc22_fixed(sb)
      [] update = "super-minor" -> minor_set(sb)
      [] update = "summaries"   -> summarised(sb)
      [] update = "resync"      -> resynced(sb)
      [] OTHER                  -> sb

\* the ways the probe of device d may go
probe_paths(d) ==
    IF disk[d].md_magic = 0
    THEN {"open fails", "fstat fails", "not a block device", "load fails"}
    ELSE {"loaded"}

\* the ways the write of an updated superblock may go
update_paths ==
    IF update = "none" THEN {"no update"}
    ELSE {"open fails", "store fails", "stored"}

\* the descriptors of device d an access opens, by the way it goes
opened_on(d, path) ==
    IF path \in {"open fails", "no update"} THEN {} ELSE {d}

\* Alternative to closed_on: the descriptor is not closed when load_super
\* fails.
closed_on_but_load(d, path) ==
    IF path \in {"open fails", "no update", "load fails"} THEN {} ELSE {d}

\* the descriptors of device d an access closes, by the way it goes
closed_on(d, path) ==
    IF path \in {"open fails", "no update"} THEN {} ELSE {d}

\* Alternative to probe_verdict: a superblock that does not match the
\* reference is skipped.
probe_verdict_lenient(havesuper, sb) ==
    IF rejected_by_ident(havesuper, sb) THEN "skip"
    ELSE IF ~havesuper THEN "no superblock"
    ELSE IF compare_super(first_super, sb) # 0 THEN "skip"
    ELSE IF devcnt >= MD_SB_DISKS THEN "too many"
    ELSE "member"

\* Alternative to probe_verdict: a device without a superblock is skipped
\* under every identity.
probe_verdict_skipping(havesuper, sb) ==
    IF rejected_by_ident(havesuper, sb) \/ ~havesuper THEN "skip"
    ELSE IF compare_super(first_super, sb) # 0 THEN "mismatch"
    ELSE IF devcnt >= MD_SB_DISKS THEN "too many"
    ELSE "member"

\* what the loop body decides for a device once it was probed
probe_verdict(havesuper, sb) ==
    IF rejected_by_ident(havesuper, sb) THEN "skip"
    ELSE IF ~havesuper THEN "no superblock"
    ELSE IF compare_super(first_super, sb) # 0 THEN "mismatch"
    ELSE IF devcnt >= MD_SB_DISKS THEN "too many"
    ELSE "member"

Probe ==
    /\ pc = "probe"
    /\ nextdev <= num_devs
    /\ nextdev' = nextdev + 1
    /\ LET d == nextdev IN
       IF ident.devices # {} /\ d \notin ident.devices THEN
          \* not one of ident->devices
          UNCHANGED <<params, env, old_linux, first_super, super, devices,
                      best, bestcnt, most_recent, okcnt, sparecnt, req_cnt,
                      avail, chosen_drive, change, addi, hist, pc, ret, msg>>
       ELSE
          \* open, fstat, load_super: a device that cannot be opened, is
          \* no block device or holds no superblock leaves havesuper = 0
          \E path \in probe_paths(d), wr \in update_paths :
          LET sb == disk[d]
              havesuper == path = "loaded"
              verdict == probe_verdict(havesuper, sb)
              probed == (fds \cup opened_on(d, path)) \ closed_on(d, path)
          IN
          /\ CASE verdict = "skip" ->
                   /\ super' = IF havesuper THEN sb ELSE super
                   /\ fds' = probed
                   /\ UNCHANGED <<first_super, devices, best, bestcnt,
                                  most_recent, disk, writes, faults,
                                  pc, ret, msg,
                                  rdwr>>
               [] verdict = "no superblock" ->
                   /\ Return(1, "no superblock")
                   /\ fds' = probed
                   /\ UNCHANGED <<super, first_super, devices, best, bestcnt,
                                  most_recent, disk, writes, faults,
                                  rdwr>>
               [] verdict = "mismatch" ->
                   /\ Return(1, "superblock mismatch")
                   /\ super' = sb
                   /\ fds' = probed
                   /\ UNCHANGED <<first_super, devices, best, bestcnt,
                                  most_recent, disk, writes, faults,
                                  rdwr>>
               [] verdict = "too many" ->
                   /\ first_super' = reference_after(first_super, sb)
                   /\ super' = sb
                   /\ fds' = probed
                   /\ UNCHANGED <<devices, best, bestcnt, most_recent,
                                  disk, writes, faults, pc, ret, msg,
                                  rdwr>>
               [] verdict = "member" ->
                   LET up == updated(sb)
                       devs == Append(devices, candidate(d, up))
                       i == slot_key(up, devcnt)
                   IN  /\ first_super' = reference_after(first_super, sb)
                       /\ super' = up
                       /\ wr \in {"open fails", "store fails"} => MayFail
                       /\ faults' = IF wr \in {"open fails", "store fails"}
                                    THEN faults + 1 ELSE faults
                       /\ disk' = IF wr = "stored"
                                  THEN [disk EXCEPT ![d] = up] ELSE disk
                       /\ writes' = IF wr = "stored"
                                    THEN writes \cup {d} ELSE writes
                       /\ rdwr' = IF wr = "no update" THEN rdwr
                                  ELSE rdwr \cup {d}
                       /\ fds' = (probed \cup opened_on(d, wr))
                                    \ closed_on(d, wr)
                       /\ devices' = devs
                       /\ most_recent' = most_recent_after(most_recent, devs)
                       /\ best' = best_after(best, bestcnt, i, devs)
                       /\ bestcnt' = bestcnt_after(bestcnt, i)
                       /\ UNCHANGED <<pc, ret, msg>>
          /\ UNCHANGED <<params, kstate, kdisks, old_linux, okcnt, sparecnt,
                         req_cnt, avail, chosen_drive, change, addi, calls,
                         failed, iters, ub>>

(***************************************************************************)
(* The quorum count.                                                       *)
(***************************************************************************)
BestSlots == { i \in 0 .. bestcnt - 1 : best[i] >= 0 }

\* the winner of slot i is skipped by the count: no SYNC flag (not multipath)
unsynced(i) ==
    first_super.level # -4 /\ "SYNC" \notin Dev(best[i]).state

\* the winner of slot i has recent enough events
recent(i) ==
    LET event_margin == IF force THEN 0 ELSE 1
    IN  Dev(best[i]).events + event_margin >= Dev(most_recent).events

\* the slots whose winner the count marks up to date
counted_slots == { i \in BestSlots : ~unsynced(i) /\ recent(i) }

Count ==
    /\ pc = "probe"
    /\ nextdev > num_devs
    /\ IF devcnt = 0 THEN
          /\ Return(1, "no devices found")
          /\ UNCHANGED <<devices, avail, okcnt, sparecnt>>
       ELSE
          LET up == counted_slots
              rd == first_super.raid_disks
          IN  /\ devices' = [k \in 1 .. devcnt |->
                   [devices[k] EXCEPT !.uptodate =
                       \E i \in up : best[i] = k - 1]]
              /\ avail' = [i \in 0 .. rd - 1 |-> i \in up]
              /\ okcnt' = Cardinality({ i \in up : i < rd })
              /\ sparecnt' = Cardinality({ i \in up : i >= rd })
                   + Cardinality({ i \in BestSlots :
                        unsynced(i) /\ "FAULTY" \notin Dev(best[i]).state })
              /\ pc' = "force"
              /\ UNCHANGED <<ret, msg>>
    /\ UNCHANGED <<params, env, old_linux, first_super, super, best, bestcnt,
                   most_recent, req_cnt, chosen_drive, change, nextdev, addi,
                   hist>>

(***************************************************************************)
(* The force loop: one iteration per step.                                 *)
(***************************************************************************)
\* the slots the loop may pick: a winner that is stale, with events > 0
force_slots ==
    { i \in BestSlots : /\ i < first_super.raid_disks
                        /\ ~Dev(best[i]).uptodate
                        /\ Dev(best[i]).events > 0 }

\* the scan keeps the first slot holding the largest event counter
force_choice ==
    IF force_slots = {} THEN -1
    ELSE LET top == CHOOSE i \in force_slots :
                      \A k \in force_slots :
                         \/ Dev(best[k]).events < Dev(best[i]).events
                         \/ Dev(best[k]).events = Dev(best[i]).events /\ i <= k
         IN  best[top]

\* Alternative to force_continues: the loop goes on while a stale drive is
\* left, whether or not the array has enough drives.
force_exhausts == force /\ force_choice >= 0

\* the while condition holds and the scan finds a drive
force_continues == force /\ ~Enough /\ force_choice >= 0

\* avail[k] = 1; a k outside the vector lands beyond its end
avail_set(av, k) == [i \in DOMAIN av \cup {k} |-> i = k \/ (i \in DOMAIN av /\ av[i])]

\* what the iteration does once the superblock is stored
force_done(j) ==
    /\ devices' = [devices EXCEPT ![j + 1].events = Dev(most_recent).events,
                                  ![j + 1].uptodate = TRUE]
    /\ avail' = avail_set(avail, j)
    /\ okcnt' = UInc(okcnt)

\* Alternative to force_failed: a failed iteration keeps the candidate's
\* event counter.
force_failed_keep(j) == UNCHANGED <<devices, avail, okcnt>>

\* what the iteration does when the open, the load or the store fails
force_failed(j) ==
    /\ devices' = [devices EXCEPT ![j + 1].events = 0]
    /\ UNCHANGED <<avail, okcnt>>

\* the superblock the iteration stores: most_recent's events, forced clean
forced_super(sb) ==
    [sb EXCEPT !.events = Dev(most_recent).events,
               !.state = IF sb.level \in {4, 5} THEN {"CLEAN"} ELSE sb.state]

ForceIter ==
    /\ pc = "force"
    /\ force_continues
    /\ iters' = iters + 1
    /\ chosen_drive' = force_choice
    /\ LET j == force_choice
           d == Dev(j).dev
       IN  \E outcome \in {"open fails", "load fails", "store fails", "stored"} :
             /\ outcome # "stored" => MayFail
             /\ faults' = IF outcome = "stored" THEN faults ELSE faults + 1
             /\ fds' = (fds \cup opened_on(d, outcome)) \ closed_on(d, outcome)
             /\ rdwr' = rdwr \cup {d}
             /\ super' = IF outcome \in {"store fails", "stored"}
                         THEN forced_super(disk[d]) ELSE super
             /\ IF outcome = "stored"
                THEN /\ disk' = [disk EXCEPT ![d] = forced_super(disk[d])]
                     /\ writes' = writes \cup {d}
                     /\ force_done(j)
                ELSE /\ UNCHANGED <<disk, writes>>
                     /\ force_failed(j)
    /\ UNCHANGED <<params, kstate, kdisks, old_linux, first_super, best,
                   bestcnt, most_recent, sparecnt, req_cnt, change, nextdev,
                   addi, calls, failed, ub, pc, ret, msg>>

(***************************************************************************)
(* The chosen drive and the reconciler.                                    *)
(***************************************************************************)
UpSlots == { i \in BestSlots : Dev(best[i]).uptodate }

\* the first up-to-date slot's winner, -1 when there is none
first_uptodate ==
    IF UpSlots = {} THEN -1
    ELSE best[CHOOSE i \in UpSlots : \A k \in UpSlots : i <= k]

ChooseDrive ==
    /\ pc = "force"
    /\ ~force_continues
    /\ chosen_drive' = first_uptodate
    /\ IF first_uptodate < 0 THEN
          /\ pc' = "reconcile"
          /\ UNCHANGED <<super, faults, fds, ret, msg>>
       ELSE
          \E outcome \in {"open fails", "load fails", "loaded"} :
             /\ fds' = (fds \cup opened_on(Dev(first_uptodate).dev, outcome))
                          \ closed_on(Dev(first_uptodate).dev, outcome)
             /\ IF outcome = "loaded" THEN
                   /\ super' = disk[Dev(first_uptodate).dev]
                   /\ pc' = "reconcile"
                   /\ UNCHANGED <<faults, ret, msg>>
                ELSE
                   /\ MayFail
                   /\ faults' = faults + 1
                   /\ Return(1, "chosen drive unreadable")
                   /\ UNCHANGED super
    /\ UNCHANGED <<params, env, old_linux, first_super, devices, best,
                   bestcnt, most_recent, okcnt, sparecnt, req_cnt, avail,
                   change, nextdev, addi, calls, failed, writes, iters, ub,
                   rdwr>>

desired_state(sb, i) == IF i < sb.raid_disks THEN ActiveSync ELSE {}

\* slot i's recorded device number differs from its winner's own record
renumbered(sb, i) == Dev(best[i]).oldnumber # sb.disks[i].number

\* slot i's recorded state is not the one an up-to-date winner should have
wrong_state(sb, i) == sb.disks[i].state # desired_state(sb, i)

\* force on a raid4/5 that misses exactly one drive
force_clean(sb) == force /\ sb.level \in {4, 5} /\ okcnt = sb.raid_disks - 1

\* the change bits the reconciler's loop and its special case collect
reconciled_change(sb) ==
    (IF \E i \in UpSlots : renumbered(sb, i) THEN {2} ELSE {})
    \cup (IF force /\ \E i \in UpSlots : wrong_state(sb, i) THEN {2} ELSE {})
    \cup (IF force_clean(sb) THEN {2} ELSE {})

\* the superblock after the reconciler's loop and its special case
reconciled_super(sb) ==
    [sb EXCEPT
       !.disks = [i \in DOMAIN sb.disks |->
                    IF i \in UpSlots
                    THEN [sb.disks[i] EXCEPT
                            !.number = Dev(best[i]).oldnumber,
                            !.state = IF force THEN desired_state(sb, i)
                                      ELSE sb.disks[i].state]
                    ELSE sb.disks[i]],
       !.state = IF force_clean(sb) THEN {"CLEAN"} ELSE sb.state]

\* Alternative to write_back: any recorded change is written back.
write_back_on_change(ch) == ch # {}

\* whether the reconciled superblock is written back
write_back(ch) == (force /\ 2 \in ch) \/ (old_linux /\ 1 \in ch)

\* slots the reference superblock records as active, in sync, not faulty
required_count ==
    Cardinality({ i \in DOMAIN first_super.disks :
                    /\ "SYNC" \in first_super.disks[i].state
                    /\ "ACTIVE" \in first_super.disks[i].state
                    /\ "FAULTY" \notin first_super.disks[i].state })

Reconcile ==
    /\ pc = "reconcile"
    /\ LET sb == reconciled_super(super)
           ch == reconciled_change(super)
       IN  /\ super' = sb
           /\ req_cnt' = required_count
           /\ IF ~write_back(ch) THEN
                 /\ change' = ch
                 /\ pc' = "plan"
                 /\ UNCHANGED <<disk, writes, faults, ub, fds, rdwr, ret, msg>>
              ELSE IF chosen_drive < 0 THEN
                 \* devices[-1].devname is opened
                 /\ ub' = TRUE
                 /\ change' = ch
                 /\ Return(1, "cannot write chosen drive")
                 /\ UNCHANGED <<disk, writes, faults, fds, rdwr>>
              ELSE
                 \E outcome \in {"open fails", "store fails", "stored"} :
                    /\ rdwr' = rdwr \cup {Dev(chosen_drive).dev}
                    /\ fds' = (fds \cup opened_on(Dev(chosen_drive).dev, outcome))
                                 \ closed_on(Dev(chosen_drive).dev, outcome)
                    /\ IF outcome = "stored" THEN
                          /\ disk' = [disk EXCEPT ![Dev(chosen_drive).dev] = sb]
                          /\ writes' = writes \cup {Dev(chosen_drive).dev}
                          /\ change' = {}
                          /\ pc' = "plan"
                          /\ UNCHANGED <<faults, ub, ret, msg>>
                       ELSE
                          /\ MayFail
                          /\ faults' = faults + 1
                          /\ change' = ch
                          /\ Return(1, "cannot write chosen drive")
                          /\ UNCHANGED <<disk, writes, ub>>
    /\ UNCHANGED <<params, kstate, kdisks, old_linux, first_super, devices,
                   best, bestcnt, most_recent, okcnt, sparecnt, avail,
                   chosen_drive, nextdev, addi, calls, failed, iters>>

(***************************************************************************)
(* The driver plan on a 2.4 kernel: SET_ARRAY_INFO, the ADD_NEW_DISK loop  *)
(* (one call per step), the run policy.                                    *)
(***************************************************************************)
SetArrayInfo ==
    /\ pc = "plan"
    /\ ~old_linux
    /\ calls' = Append(calls, Call("SET_ARRAY_INFO", 0))
    /\ \E ok \in BOOLEAN :
         IF ok THEN
            /\ kstate' = "prepared"
            /\ pc' = "add"
            /\ addi' = 0
            /\ UNCHANGED <<failed, faults, ret, msg>>
         ELSE
            /\ MayFail
            /\ faults' = faults + 1
            /\ failed' = failed \cup {"SET_ARRAY_INFO"}
            /\ Return(1, "SET_ARRAY_INFO failed")
            /\ UNCHANGED <<kstate, addi>>
    /\ UNCHANGED <<params, kdisks, disk, old_linux, first_super, super,
                   devices, best, bestcnt, most_recent, okcnt, sparecnt,
                   req_cnt, avail, chosen_drive, change, nextdev, writes,
                   iters, ub, fds, rdwr>>

\* Alternative to add_target: the chosen drive is added at its own slot.
add_target_in_slot_order(i) == IF i < bestcnt THEN best[i] ELSE -1

\* the device the add loop handles at index i, -1 when it adds none
add_target(i) ==
    IF i < bestcnt
    THEN (IF best[i] = chosen_drive THEN -1 ELSE best[i])
    ELSE chosen_drive

\* the loop indexes from addi on at which a disk is added
add_pending == { i \in addi .. bestcnt : add_target(i) >= 0 }

AddDisk ==
    /\ pc = "add"
    /\ add_pending # {}
    /\ LET i == CHOOSE x \in add_pending : \A y \in add_pending : x <= y
           j == add_target(i)
       IN  /\ calls' = Append(calls, Call("ADD_NEW_DISK", Dev(j).number))
           /\ addi' = i + 1
           /\ \E ok \in BOOLEAN :
                IF ok THEN
                   /\ kdisks' = kdisks \cup {Dev(j).number}
                   /\ UNCHANGED <<okcnt, sparecnt, failed, faults>>
                ELSE
                   /\ MayFail
                   /\ faults' = faults + 1
                   /\ failed' = failed \cup {"ADD_NEW_DISK"}
                   /\ IF i < first_super.raid_disks \/ i = bestcnt
                      THEN okcnt' = UDec(okcnt) /\ UNCHANGED sparecnt
                      ELSE sparecnt' = UDec(sparecnt) /\ UNCHANGED okcnt
                   /\ UNCHANGED kdisks
    /\ UNCHANGED <<params, kstate, disk, old_linux, first_super, super,
                   devices, best, bestcnt, most_recent, req_cnt, avail,
                   chosen_drive, change, nextdev, writes, iters, ub, fds, rdwr,
                   pc, ret, msg>>

start_partial_ok == force \/ ~inargv

\* Alternative to run_wanted: with runstop 0 a quorum alone starts the array.
run_wanted_on_quorum == runstop = 1 \/ (runstop = 0 /\ Enough)

\* Alternative to run_wanted: runstop -1 is taken as runstop 1.
run_wanted_unless_auto ==
    \/ runstop # 0
    \/ Enough /\ (UGe(okcnt, req_cnt) \/ start_partial_ok)

\* the condition under which the run policy issues RUN_ARRAY
run_wanted ==
    \/ runstop = 1
    \/ /\ runstop = 0
       /\ Enough
       /\ (UGe(okcnt, req_cnt) \/ start_partial_ok)

RunPolicy ==
    /\ pc = "add"
    /\ add_pending = {}
    /\ IF run_wanted THEN
          /\ calls' = Append(calls, Call("RUN_ARRAY", 0))
          /\ \E ok \in BOOLEAN :
               IF ok THEN
                  /\ kstate' = "running"
                  /\ Return(0, "started")
                  /\ UNCHANGED <<failed, faults>>
               ELSE
                  /\ MayFail
                  /\ faults' = faults + 1
                  /\ failed' = failed \cup {"RUN_ARRAY"}
                  /\ Return(1, "RUN_ARRAY failed")
                  /\ UNCHANGED kstate
       ELSE IF runstop = -1 THEN
          /\ Return(0, "assembled, not started")
          /\ UNCHANGED <<calls, kstate, failed, faults>>
       ELSE
          /\ Return(1, IF Enough THEN "assembled, needs more drives"
                       ELSE "assembled, not enough to start")
          /\ UNCHANGED <<calls, kstate, failed, faults>>
    /\ UNCHANGED <<params, kdisks, disk, locals, writes, iters, ub, fds,
                   rdwr>>

(***************************************************************************)
(* The driver plan on an older kernel: START_ARRAY on the chosen drive.    *)
(***************************************************************************)
StartArray ==
    /\ pc = "plan"
    /\ old_linux
    \* with no chosen drive the argument is read from devices[-1]
    /\ ub' = (ub \/ chosen_drive < 0)
    /\ LET dev == IF chosen_drive < 0 THEN -1 ELSE Dev(chosen_drive).number
       IN  /\ calls' = Append(calls, Call("START_ARRAY", dev))
           /\ \E ok \in BOOLEAN :
                IF ok THEN
                   /\ kstate' = "running"
                   /\ kdisks' = {dev}
                   /\ Return(0, "started")
                   /\ UNCHANGED <<failed, faults>>
                ELSE
                   /\ MayFail
                   /\ faults' = faults + 1
                   /\ failed' = failed \cup {"START_ARRAY"}
                   /\ Return(0, "cannot start array")
                   /\ UNCHANGED <<kstate, kdisks>>
    /\ UNCHANGED <<params, disk, locals, writes, iters, fds, rdwr>>

(***************************************************************************)
(* Specification.                                                          *)
(***************************************************************************)
\* What a member device of array g may hold, by kind, when it claims slot s.
Kind(g, k, s) ==
    CASE k = "fresh"  -> Member(g, MaxEvent, s, ActiveSync, CleanTable(g[2]))
      [] k = "behind" -> Member(g, MaxEvent - 1, s, ActiveSync, CleanTable(g[2]))
      [] k = "dead"   -> Member(g, 0, s, ActiveSync, CleanTable(g[2]))
      [] k = "spare"  -> Member(g, MaxEvent, s, {}, CleanTable(g[2]))
      [] k = "faulty" -> Member(g, MaxEvent, s, {"FAULTY"}, CleanTable(g[2]))
      [] k = "degraded" ->
            Member(g, MaxEvent, s, ActiveSync, DegradedTable(g[2]))
      [] k = "old"    -> Member(g, MaxEvent - 2, s, ActiveSync, CleanTable(g[2]))
      [] k = "clean"  ->
            [Member(g, MaxEvent, s, ActiveSync, CleanTable(g[2]))
               EXCEPT !.state = {"CLEAN"}]
      [] k = "sparc"  ->
            Sparc22(Member(g, MaxEvent, s, ActiveSync, CleanTable(g[2])))
      [] k = "removed" ->
            Member(g, MaxEvent, s, {"REMOVED"}, RemovedTable(g[2]))

\* The input space is the union of five families of runs.  Device d of
\* the list holds one of:
\*   "plan":  a member in slot d-1 that is fresh, one event behind, never
\*            written, a spare or faulty (every force/runstop/devlist);
\*   "slots": a member in slot d-1 or 0, or with no slot, that is fresh,
\*            behind, never written or carries the degraded table;
\*   "ident": no superblock, a foreign one, a divergent one, or a member in
\*            slot d-1 (every identity);
\*   "stale": a member in slot d-1 that is fresh or two events behind;
\*   "update": a member in slot d-1 of a cleanly stopped array, one written
\*            by a 2.2 sparc kernel, or one marked removed (every update
\*            mode).
Families == {"plan", "slots", "ident", "stale", "update"}

UpdateModes == {"sparc2.2", "super-minor", "summaries", "resync"}

Holding(family, g, d) ==
    CASE family = "plan" ->
            { Kind(g, k, d - 1) :
                k \in {"fresh", "behind", "dead", "spare", "faulty"} }
      [] family = "slots" ->
            { Kind(g, k, s) : k \in {"fresh", "behind", "dead", "degraded"},
                              s \in {0, d - 1} }
            \cup { Kind(g, "fresh", SlotLimit) }
      [] family = "ident" ->
            { NoSuper, Foreign(g), Odd(g),
              Kind(g, "fresh", d - 1), Kind(g, "behind", d - 1) }
      [] family = "stale" ->
            { Kind(g, k, d - 1) : k \in {"fresh", "old"} }
      [] family = "update" ->
            { Kind(g, k, d - 1) : k \in {"clean", "sparc", "removed"} }

\* the contents of devices 1..k when the list names the first n of them
RECURSIVE Holdings(_, _, _, _)
Holdings(family, g, n, k) ==
    IF k = 0 THEN { << >> }
    ELSE { Append(h, c) :
             h \in Holdings(family, g, n, k - 1),
             c \in (IF k <= n THEN Holding(family, g, k) ELSE {NoSuper}) }

UuidIdent == [NoIdent EXCEPT !.uuid_set = TRUE, !.uuid = 1]

InitArgs(family, g) ==
    /\ num_devs \in 1 .. MaxDevs
    /\ disk \in Holdings(family, g, num_devs, MaxDevs)
    /\ CASE family = "plan" ->
              /\ force \in BOOLEAN
              /\ runstop \in {-1, 0, 1}
              /\ inargv \in BOOLEAN
              /\ ident = UuidIdent
              /\ update = "none"
         [] family = "slots" ->
              /\ force \in BOOLEAN
              /\ runstop = 0
              /\ inargv = TRUE
              /\ ident = UuidIdent
              /\ update = "none"
         [] family = "ident" ->
              /\ force = FALSE
              /\ runstop = 0
              /\ inargv \in BOOLEAN
              /\ ident \in Idents(g)
              /\ update = "none"
         [] family = "stale" ->
              /\ force \in BOOLEAN
              /\ runstop = 0
              /\ inargv = TRUE
              /\ ident = UuidIdent
              /\ update = "none"
         [] family = "update" ->
              /\ force = FALSE
              /\ runstop = 0
              /\ inargv = TRUE
              /\ ident = UuidIdent
              /\ update \in UpdateModes \cup {"none"}

Init ==
    /\ \E family \in Families, g \in Geoms : InitArgs(family, g)
    /\ disk0 = disk
    /\ fds = {Mdfd}
    /\ rdwr = {}
    /\ kstate \in {"active", "stale"}
    /\ kdisks = {}
    /\ pc = "start"
    /\ old_linux = FALSE
    /\ first_super = NoSuper
    /\ super = NoSuper
    /\ devices = << >>
    /\ best = << >>
    /\ bestcnt = 0
    /\ most_recent = 0
    /\ okcnt = 0
    /\ sparecnt = 0
    /\ req_cnt = 0
    /\ avail = << >>
    /\ chosen_drive = -1
    /\ change = {}
    /\ nextdev = 1
    /\ addi = 0
    /\ ret = -1
    /\ calls = << >>
    /\ failed = {}
    /\ writes = {}
    /\ iters = 0
    /\ faults = 0
    /\ msg = ""
    /\ ub = FALSE

Next ==
    \/ Start
    \/ Probe
    \/ Count
    \/ ForceIter
    \/ ChooseDrive
    \/ Reconcile
    \/ SetArrayInfo
    \/ AddDisk
    \/ RunPolicy
    \/ StartArray

Spec == Init /\ [][Next]_vars

(***************************************************************************)
(* Properties of the kernel calls of a run.                                *)
(***************************************************************************)
Done == pc = "done"
StartOps == {"RUN_ARRAY", "START_ARRAY"}
\* positions of the ADD_NEW_DISK calls in the trace of kernel calls
AddCalls == { k \in 1 .. Len(calls) : calls[k].op = "ADD_NEW_DISK" }
\* SET_ARRAY_INFO was issued and succeeded
Prepared == "SET_ARRAY_INFO" \in CallOps \ failed
\* the run went through the add loop and the run policy of a 2.4 kernel
PlanDone == Done /\ ~old_linux /\ Prepared

\* SET_ARRAY_INFO precedes every ADD_NEW_DISK, every ADD_NEW_DISK precedes
\* RUN_ARRAY, and RUN_ARRAY if issued is the last kernel call
SetAddRunOrder ==
    /\ \A k \in AddCalls :
          \E m \in 1 .. k - 1 : calls[m].op = "SET_ARRAY_INFO"
    /\ \A k \in 1 .. Len(calls) :
          calls[k].op = "RUN_ARRAY" =>
             k = Len(calls) /\ \A a \in AddCalls : a < k

\* the device of the last ADD_NEW_DISK issued
LastAdded == calls[CHOOSE k \in AddCalls : \A m \in AddCalls : m <= k].dev

RequiredSlots ==
    { i \in DOMAIN first_super.disks :
        /\ ActiveSync \subseteq first_super.disks[i].state
        /\ "FAULTY" \notin first_super.disks[i].state }

\* enough(...) and (okcnt >= req_cnt or start_partial_ok), on the counters
\* as the add loop left them
RunCondition ==
    /\ enough(first_super.level, first_super.raid_disks, 0, avail, AsInt(okcnt))
    /\ \/ UGe(okcnt, Cardinality(RequiredSlots))
       \/ force
       \/ ~inargv

\* C2: on the modern path with runstop = 0, after all ADD_NEW_DISK calls
\* RUN_ARRAY is issued if and only if enough(...) holds and (okcnt >= req_cnt
\* or force was given or no device list was supplied); when that is false
\* Assemble returns non-zero without RUN_ARRAY.
C2_RunPolicy ==
    (PlanDone /\ runstop = 0) =>
       /\ ("RUN_ARRAY" \in CallOps) <=> RunCondition
       /\ ~RunCondition => ret # 0

\* a run refused to start an array that had a quorum but not all its drives
C2_Witness ==
    /\ PlanDone /\ runstop = 0
    /\ Enough
    /\ "RUN_ARRAY" \notin CallOps
    /\ ret # 0

\* C3 as stated: with runstop = -1 no RUN_ARRAY or START_ARRAY is ever
\* issued, and a run that reaches the driver plan returns 0 reporting
\* "assembled, not started".
C3_NeverStarted ==
    runstop = -1 =>
       /\ CallOps \cap StartOps = {}
       /\ (Done /\ CallOps \cap {"SET_ARRAY_INFO", "START_ARRAY"} # {}) =>
             ret = 0 /\ msg = "assembled, not started"

\* C3 amended: with runstop = -1 on the modern path no RUN_ARRAY or
\* START_ARRAY is ever issued, and a run whose SET_ARRAY_INFO succeeded
\* returns 0 reporting "assembled, not started", whatever the number of
\* available drives.
C3_NeverStartedModern ==
    (runstop = -1 /\ ~old_linux) =>
       /\ CallOps \cap StartOps = {}
       /\ (Done /\ Prepared) => ret = 0 /\ msg = "assembled, not started"

\* an array without a quorum was assembled and left unstarted
C3_Witness ==
    /\ PlanDone /\ runstop = -1
    /\ ~Enough
    /\ kdisks # {}
    /\ ret = 0

\* C4: when SET_ARRAY_INFO, RUN_ARRAY or START_ARRAY fails Assemble returns
\* non-zero, and it returns 0 only when the array was started or was
\* assembled and deliberately not started.
C4_KernelFailureFatal ==
    Done =>
       /\ failed \cap {"SET_ARRAY_INFO", "RUN_ARRAY", "START_ARRAY"} # {}
             => ret # 0
       /\ ret = 0 =>
             \/ kstate = "running"
             \/ kstate = "prepared" /\ runstop = -1

\* C5 as stated: whenever Assemble returns non-zero after the defensive
\* STOP_ARRAY, the array is in the stopped, empty state, on every failure
\* exit.
C5_NoPartialState ==
    (Done /\ ret # 0 /\ "STOP_ARRAY" \in CallOps) =>
       kstate = "stopped" /\ kdisks = {}

\* C5 amended: whenever Assemble returns non-zero without SET_ARRAY_INFO
\* having succeeded, the array holds no member disk and, once STOP_ARRAY was
\* issued, is in the stopped, empty state; a non-zero return after
\* SET_ARRAY_INFO succeeded (the run policy refused, RUN_ARRAY failed) leaves
\* the array prepared with every disk whose ADD_NEW_DISK succeeded.
C5_NoPartialStateBeforePlan ==
    (Done /\ ret # 0) =>
       IF Prepared
       THEN /\ kstate = "prepared"
            /\ kdisks \subseteq { calls[k].dev : k \in AddCalls }
            /\ "ADD_NEW_DISK" \notin failed
                  => kdisks = { calls[k].dev : k \in AddCalls }
       ELSE /\ kdisks = {}
            /\ "STOP_ARRAY" \in CallOps => kstate = "stopped"

\* a failure exit after devices were recorded and a superblock was forced
C5_Witness ==
    /\ Done /\ ret # 0
    /\ ~Prepared
    /\ "STOP_ARRAY" \in CallOps
    /\ writes # {}

\* C6: when the array is already active Assemble issues GET_ARRAY_INFO only,
\* returns non-zero reporting "already active", and leaves the kernel array
\* and every superblock as they were.
C6_AlreadyActive ==
    [][ kstate = "active" =>
          /\ pc' = "done" /\ ret' # 0
          /\ kstate' = "active" /\ kdisks' = kdisks
          /\ disk' = disk /\ writes' = writes
          /\ calls' # calls =>
                /\ calls' = << Call("GET_ARRAY_INFO", 0) >>
                /\ msg' = "already active" ]_vars

C6_Witness ==
    /\ Done /\ kstate = "active"
    /\ msg = "already active"
    /\ CallOps = {"GET_ARRAY_INFO"}

\* device d is on the whitelist and matches every identity field that is set
PassesIdentity(d) ==
    LET sb == disk[d]
        has == sb.md_magic # 0
    IN  /\ ident.devices = {} \/ d \in ident.devices
        /\ ident.uuid_set => has /\ sb.uuid = ident.uuid
        /\ ident.super_minor # UnSet => has /\ sb.md_minor = ident.super_minor
        /\ ident.level # UnSet => has /\ sb.level = ident.level
        /\ ident.raid_disks # UnSet => has /\ sb.raid_disks = ident.raid_disks

\* device d holds a superblock that differs from the reference in the set
\* UUID, the level or the number of raid disks
Mismatched(d) ==
    /\ disk[d].md_magic # 0
    /\ first_super.md_magic # 0
    /\ \/ disk[d].uuid # first_super.uuid
       \/ disk[d].level # first_super.level
       \/ disk[d].raid_disks # first_super.raid_disks

\* the probe loop is about to handle device nextdev
Probing == pc = "probe" /\ nextdev <= num_devs

IdentityGiven ==
    \/ ident.uuid_set
    \/ ident.super_minor # UnSet
    \/ ident.level # UnSet
    \/ ident.raid_disks # UnSet

C9_ForceMonotone ==
    [][ iters' # iters =>
          /\ iters' <= first_super.raid_disks
          /\ okcnt' > okcnt ]_vars

\* C9 amended: the force loop runs at most raid_disks iterations; an
\* iteration that stores the candidate's superblock increases okcnt by one,
\* and one in which the open, the load or the store fails leaves okcnt as it
\* was and zeroes the candidate's event counter.
C9_ForceBounded ==
    [][ iters' # iters =>
          /\ iters' <= first_super.raid_disks
          /\ IF faults' = faults
             THEN okcnt' = okcnt + 1
             ELSE /\ okcnt' = okcnt
                  /\ devices'[chosen_drive' + 1].events = 0 ]_vars

\* a failed iteration was followed by one that stored a superblock
C9_Witness ==
    /\ pc = "force"
    /\ iters >= 2
    /\ faults >= 1
    /\ writes # {}

\* the slot device j claims, and the devices claiming slot i
SlotClaim(j) == IF first_super.level = -4 THEN j ELSE Dev(j).raid_disk
Claimants(i) == { j \in 0 .. devcnt - 1 : SlotClaim(j) = i }
ProbeEnded == pc = "probe" /\ nextdev > num_devs

\* C10: when the probe phase ends, every slot of best[] holds the earliest
\* of the candidates with the largest event counter among those claiming
\* the slot (-1 when there is none), every slot claimed is in best[], and
\* most_recent is a candidate with the globally largest event counter.
C10_SlotMap ==
    ProbeEnded =>
       /\ \A i \in 0 .. bestcnt - 1 :
             IF Claimants(i) = {} THEN best[i] = -1
             ELSE /\ best[i] \in Claimants(i)
                  /\ \A k \in Claimants(i) :
                        \/ Dev(k).events < Dev(best[i]).events
                        \/ Dev(k).events = Dev(best[i]).events /\ best[i] <= k
       /\ \A j \in 0 .. devcnt - 1 :
             SlotClaim(j) < SlotLimit => SlotClaim(j) < bestcnt
       /\ devcnt > 0 =>
             /\ most_recent \in 0 .. devcnt - 1
             /\ \A k \in 0 .. devcnt - 1 :
                   Dev(k).events <= Dev(most_recent).events

\* three devices claimed one slot: the second replaced the first and tied
\* with the third
C10_Witness ==
    /\ ProbeEnded
    /\ \E i \in 0 .. bestcnt - 1 :
         \E a, b, c \in Claimants(i) :
            /\ a < b /\ b < c
            /\ Dev(a).events < Dev(b).events
            /\ Dev(b).events = Dev(c).events
            /\ best[i] = b

(***************************************************************************)
(* Properties of the counts, the descriptors and the force loop.           *)
(***************************************************************************)
\* the quorum count is over and the force loop has not run yet
JustCounted == pc = "force" /\ iters = 0
\* the slots whose winner does not carry the REMOVED bit
KeptSlots == { i \in BestSlots : "REMOVED" \notin Dev(best[i]).state }
\* the descriptors of superblock sb that are in use and not REMOVED
KeptDescriptors(sb) ==
    { i \in DOMAIN sb.disks :
        sb.disks[i].number # 0 /\ "REMOVED" \notin sb.disks[i].state }

\* C11: a device with the REMOVED bit is counted in no total: after the
\* quorum count it is not up to date, not in avail, and okcnt and sparecnt
\* are the counts over the winners without the bit; req_cnt counts no slot
\* recorded REMOVED; the counts a 'summaries' update stores leave the
\* REMOVED descriptors out.
C11_RemovedNeverCounted ==
    /\ JustCounted =>
          /\ \A i \in BestSlots \ KeptSlots :
                /\ ~Dev(best[i]).uptodate
                /\ i \in DOMAIN avail => ~avail[i]
          /\ okcnt = Cardinality({ i \in KeptSlots :
                        i < first_super.raid_disks /\ Dev(best[i]).uptodate })
          /\ sparecnt = Cardinality({ i \in KeptSlots :
                           \/ i >= first_super.raid_disks /\ Dev(best[i]).uptodate
                           \/ /\ first_super.level # -4
                              /\ "SYNC" \notin Dev(best[i]).state
                              /\ "FAULTY" \notin Dev(best[i]).state })
    /\ pc \in {"plan", "add"} =>
          req_cnt = Cardinality({ i \in RequiredSlots :
                       "REMOVED" \notin first_super.disks[i].state })
    /\ update = "summaries" =>
          \A d \in writes :
             /\ disk[d].nr_disks = Cardinality(KeptDescriptors(disk[d]))
             /\ disk[d].failed_disks + disk[d].working_disks = disk[d].nr_disks

\* C12: at every return of Assemble no descriptor it opened on a device is
\* still open, and the array control handle is open throughout.
C12_DescriptorsClosed ==
    /\ Mdfd \in fds
    /\ Done => fds = {Mdfd}

\* an error return after the force loop, the reload and the write-back
\* each opened a device
C12_Witness ==
    /\ Done /\ ret = 1
    /\ msg = "cannot write chosen drive"
    /\ writes # {}
    /\ faults >= 1

\* the scenario: a level-5 array of 3, force on, slot 0 fresh, slots 1 and
\* 2 in sync but older; Assemble got past the STOP_ARRAY and nothing failed
TwoStaleForced ==
    /\ force /\ update = "none" /\ num_devs = 3
    /\ disk0[1] = Kind(<<5, 3>>, "fresh", 0)
    /\ disk0[2] = Kind(<<5, 3>>, "old", 1)
    /\ disk0[3] = Kind(<<5, 3>>, "old", 2)
    /\ Done /\ faults = 0
    /\ "STOP_ARRAY" \in CallOps

\* C13 as stated: in the scenario the force loop rewrites both stale
\* devices, okcnt ends as 3 and the array is run.
C13_BothRewritten ==
    TwoStaleForced =>
       /\ {2, 3} \subseteq writes
       /\ okcnt = 3
       /\ kstate = "running"

\* C13 amended: in the scenario the force loop rewrites the first stale
\* device only (event counter of the fresh one, state CLEAN) and stops as
\* soon as the array has enough drives: one iteration, the other stale
\* device is left as it was, okcnt ends as 2 and the array is run.
C13_FirstRewritten ==
    TwoStaleForced =>
       /\ iters = 1
       /\ 2 \in writes /\ 3 \notin writes
       /\ disk[2].events = disk0[1].events
       /\ disk[2].state = {"CLEAN"}
       /\ disk[3] = disk0[3]
       /\ okcnt = 2
       /\ kstate = "running"

C13_Witness ==
    /\ TwoStaleForced
    /\ ~old_linux
    /\ "RUN_ARRAY" \in CallOps
    /\ ret = 0

\* the quorum computation is over: avail[] is allocated
Counted == DOMAIN avail # {}
\* the data slots whose winner is marked up to date
UpDataSlots == { i \in UpSlots : i < first_super.raid_disks }

\* C14: from the end of the quorum computation until return avail[] has
\* raid_disks entries and no other, avail[i] is set exactly for the data
\* slots whose winner is marked up to date, and before any ADD_NEW_DISK
\* okcnt is the number of set entries.
C14_AvailExact ==
    Counted =>
       /\ DOMAIN avail = 0 .. first_super.raid_disks - 1
       /\ \A i \in DOMAIN avail : avail[i] <=> i \in UpDataSlots
       /\ AddCalls = {} =>
             okcnt = Cardinality({ i \in DOMAIN avail : avail[i] })

\* the indexes of the recorded devices
DevIndexes == 0 .. devcnt - 1
\* device j carries the SYNC flag, or the array is multipath
InSync(j) == first_super.level = -4 \/ "SYNC" \in Dev(j).state
\* the slots whose winner is neither in sync nor faulty
SpareSlots ==
    { i \in BestSlots : ~InSync(best[i]) /\ "FAULTY" \notin Dev(best[i]).state }

\* C15: a device marked up to date has an event counter within
\* event_margin of the most recent device's and, unless the array is
\* multipath, the SYNC flag; a winner that is neither in sync nor faulty
\* is counted as a spare and is never an available data slot.
C15_UpToDateInSync ==
    /\ \A j \in DevIndexes :
          Dev(j).uptodate =>
             /\ Dev(j).events + (IF force THEN 0 ELSE 1) >= Dev(most_recent).events
             /\ InSync(j)
    /\ Counted =>
          \A i \in SpareSlots :
             /\ ~Dev(best[i]).uptodate
             /\ i \in DOMAIN avail => ~avail[i]
    /\ JustCounted => AsInt(sparecnt) >= Cardinality(SpareSlots)

\* the reconciler finds a slot whose (major, minor) it patches
RenumberChange == \E i \in UpSlots : renumbered(super, i)
\* the reconciler, under force, finds a slot state or an array state to set
StateChange ==
    force /\ ((\E i \in UpSlots : wrong_state(super, i)) \/ force_clean(super))
\* the step wrote the superblock back (change is reset) or failed to
WriteBackAttempted ==
    pc' = "done" \/ (change' = {} /\ (RenumberChange \/ StateChange))

\* C16: the reconciler writes the superblock back to the chosen drive
\* exactly when force is set and a state change was recorded, or the kernel
\* is a legacy one and a renumbering was recorded; a failed write-back
\* makes Assemble return non-zero.
C16_WriteBackRule ==
    [][pc = "reconcile" =>
          /\ WriteBackAttempted <=>
                (force /\ StateChange) \/ (old_linux /\ RenumberChange)
          /\ pc' = "done" => ret' # 0]_vars

\* the devices whose winner of a slot is marked up to date
UpToDateDevices == { Dev(best[i]).number : i \in UpSlots }

\* C17: on a 2.4 kernel only devices with recent events are handed to the
\* kernel: every ADD_NEW_DISK is for the winner of a slot that is marked up
\* to date.
C17_OnlyUpToDateAdded ==
    \A k \in AddCalls : calls[k].dev \in UpToDateDevices

\* the devices the kernel accepted among the winners of the slots in S
Added(S) == { i \in S : Dev(best[i]).number \in kdisks }
\* the slots beyond raid_disks whose winner the quorum count counted
UpSpareSlots == UpSlots \ UpDataSlots

\* the add loop of a 2.4 kernel has come to its end
AddLoopOver == (pc = "add" /\ add_pending = {}) \/ PlanDone

\* C18: a failed ADD_NEW_DISK does not end the assembly (the add loop runs
\* to its end), and after the add loop okcnt is the number of counted data
\* devices the kernel accepted and sparecnt the number of counted spares it
\* accepted.
C18_FailedAddTallied ==
    /\ (Done /\ "ADD_NEW_DISK" \in failed) => PlanDone /\ add_pending = {}
    /\ AddLoopOver =>
          /\ okcnt = Cardinality(Added(UpDataSlots))
          /\ sparecnt = Cardinality(Added(UpSpareSlots \cup SpareSlots))

\* C20: okcnt and sparecnt never wrap below zero, and okcnt never exceeds
\* raid_disks.
C20_CountersInRange ==
    /\ AsInt(okcnt) >= 0
    /\ AsInt(sparecnt) >= 0
    /\ Counted => AsInt(okcnt) <= first_super.raid_disks

\* a probe step in which the reopen or the rewrite of an update failed
UpdateWriteFails == pc = "probe" /\ update # "none" /\ faults' > faults
\* event counter and own descriptor of device d after the update: of the
\* fields recorded, only 'sparc2.2' moves any
PostUpdate(d) == IF update = "sparc2.2" THEN disk[d].sparc_tail ELSE disk[d]

\* C19: a failed reopen or rewrite in a metadata update does not end the
\* assembly: the device is recorded as a candidate, with the event counter,
\* slot and state of the updated superblock in memory, and the device keeps
\* what it held.
C19_UpdateFailureNonFatal ==
    [][UpdateWriteFails =>
          /\ pc' = "probe" /\ ret' = ret
          /\ disk' = disk
          /\ Len(devices') = Len(devices) + 1
          /\ LET rec == devices'[Len(devices')]
                 mem == PostUpdate(nextdev)
             IN  /\ rec.dev = nextdev
                 /\ rec.events = mem.events
                 /\ rec.raid_disk = mem.this_disk.raid_disk
                 /\ rec.state = mem.this_disk.state
                 /\ super'.events = mem.events
                 /\ super'.this_disk = mem.this_disk]_vars

\* a device recorded after a failed 'sparc2.2' rewrite: its record differs
\* from what the device still holds
C19_Witness ==
    /\ pc = "probe"
    /\ update = "sparc2.2"
    /\ faults > 0 /\ writes = {}
    /\ \E j \in DevIndexes :
          /\ Dev(j).events # disk[Dev(j).dev].events
          /\ Dev(j).events = disk[Dev(j).dev].sparc_tail.events

(***************************************************************************)
(* Properties of the chosen drive and of the devices' contents.            *)
(***************************************************************************)
\* the winners of the slots that are marked up to date
UpToDateWinners == { best[i] : i \in UpSlots }

\* C21: wherever the chosen drive is used, by the reconciler's write-back
\* or as the argument of START_ARRAY, there is one: devices[chosen_drive]
\* is never read with chosen_drive < 0, and START_ARRAY is issued only for
\* an up-to-date slot winner.
C21_ChosenDriveExists ==
    /\ ~ub
    /\ "START_ARRAY" \in CallOps => chosen_drive \in UpToDateWinners

\* neither force nor an update mode is given
ReadOnlyCall == ~force /\ update = "none"

====
